---- MODULE Spec2Model ----
(***************************************************************************)
(* ShopGenie: request parser, scraper registry, platform scrapers' retry   *)
(* loop, status tracker and the search handler that ties them together.    *)
(*                                                                         *)
(* Text is modelled as a sequence of lexemes: a lexeme is a maximal run of *)
(* characters that are neither whitespace nor a comma (a "word"), one      *)
(* whitespace character, or one comma.  Python's None is the value None.   *)
(***************************************************************************)
EXTENDS Integers, Sequences, FiniteSets, TLC

VARIABLES
    message,         \* SpecParse: the text handed to parse_search_message
    search_request,  \* SpecParse: the SearchRequest it returned
    status_cache,    \* PlatformStatus._status_cache: key -> <<>> or <<entry>>
    now,             \* datetime.now(), in minutes
    last_op,         \* SpecComponents: the last component call and its result
    requests,        \* Spec: per in-flight handler invocation, its locals
    extraction,      \* SpecProducts: the last _parse_product call and its result
    ranking,         \* SpecProducts: the last rank_products call and its result
    parsing          \* SpecProducts: the last _parse_search_results call

vars == <<message, search_request, status_cache, now, last_op, requests,
         extraction, ranking, parsing>>

----------------------------------------------------------------------------
(* Bounds *)

MaxLen == 7          \* longest composed message, in lexemes
MaxTime == 32        \* the clock stops advancing here
MaxCount == 2        \* largest product count handed to record_platform_result
MaxProducts == 1     \* most products one result page yields
MaxLinks == 1        \* most links in one result element
MaxFound == 2        \* most selectors of one kind that match in an element
MaxRanked == 3         \* longest list handed to rank_products
MaxElements == 3       \* most candidate elements on a result page

----------------------------------------------------------------------------
(* Text primitives *)

None == <<"<None>">>
SP == " "
COMMA == ","

Words == {"laptop", "amazon", "Bay", "in", "ON", "for"}
Lexemes == Words \cup {SP, COMMA}

\* str.lower() on one lexeme
Lower(w) ==
    CASE w = "Bay" -> "bay"
      [] w = "ON" -> "on"
      [] w = "AMZN" -> "amzn"
      [] w = "Amazon" -> "amazon"
      [] OTHER -> w

\* str.strip(): drop leading and trailing whitespace
RECURSIVE LStrip(_)
LStrip(t) ==
    IF t = <<>> THEN <<>>
    ELSE IF Head(t) = SP THEN LStrip(Tail(t))
    ELSE t

RECURSIVE RStrip(_)
RStrip(t) ==
    IF t = <<>> THEN <<>>
    ELSE IF t[Len(t)] = SP THEN RStrip(SubSeq(t, 1, Len(t) - 1))
    ELSE t

Strip(t) == RStrip(LStrip(t))

\* Python truthiness of an Optional[str]
Truthy(t) == t # None /\ t # <<>>

\* the lexemes are in lexed form: two words are never adjacent
Lexed(t) == \A i \in 1..(Len(t) - 1) : ~(t[i] \in Words /\ t[i + 1] \in Words)

----------------------------------------------------------------------------
(* Request parser: utils/message_parser.py *)

platforms == {"amazon", "amazon.com", "amzn", "ebay", "ebay.com", "bay"}

NoError == "None"
ErrEmpty == "Please provide a search query"
ErrMissingPlatform == "Missing platform!"
ErrMissingItem == "Missing item name!"
ErrNotUnderstood == "Could not understand your search request!"

SearchRequest(item, platform) ==
    [item_name |-> item, platform |-> platform,
     is_valid |-> FALSE, error_message |-> NoError]

NoRequest == SearchRequest(None, None)

is_platform(text) ==
    IF ~Truthy(text) THEN FALSE
    ELSE LET t == Strip(text)
         IN Len(t) = 1 /\ Lower(t[1]) \in platforms

\* message.split(',', 1): the index of the first comma, 0 when there is none
FirstComma(t) ==
    IF \E i \in 1..Len(t) : t[i] = COMMA
    THEN CHOOSE i \in 1..Len(t) :
            t[i] = COMMA /\ \A j \in 1..(i - 1) : t[j] # COMMA
    ELSE 0

\* Optional[SearchRequest]: <<>> is None, <<sr>> is the request sr
NoMatch == <<>>

\* variant: only the `item, platform` order is recognised
parse_comma_separated_ItemFirstOnly(msg) ==
    IF FirstComma(msg) = 0 THEN NoMatch
    ELSE LET c == FirstComma(msg)
             part1 == Strip(SubSeq(msg, 1, c - 1))
             part2 == Strip(SubSeq(msg, c + 1, Len(msg)))
         IN IF is_platform(part2) THEN <<SearchRequest(part1, part2)>>
            ELSE NoMatch

\* variant: the two parts are taken as item and platform without the
\* platform test
parse_comma_separated_Untested(msg) ==
    IF FirstComma(msg) = 0 THEN NoMatch
    ELSE LET c == FirstComma(msg)
             part1 == Strip(SubSeq(msg, 1, c - 1))
             part2 == Strip(SubSeq(msg, c + 1, Len(msg)))
         IN IF is_platform(part1) THEN <<SearchRequest(part2, part1)>>
            ELSE <<SearchRequest(part1, part2)>>

parse_comma_separated(msg) ==
    IF FirstComma(msg) = 0 THEN NoMatch
    ELSE LET c == FirstComma(msg)
             part1 == Strip(SubSeq(msg, 1, c - 1))
             part2 == Strip(SubSeq(msg, c + 1, Len(msg)))
         IN IF is_platform(part1) THEN <<SearchRequest(part2, part1)>>
            ELSE IF is_platform(part2) THEN <<SearchRequest(part1, part2)>>
            ELSE NoMatch

\* re.search(r'(.+?)\s+(kw)\s+(.+?)$', msg, re.IGNORECASE): the lazy first
\* group stops at the leftmost keyword that has whitespace on both sides,
\* at least one character before that whitespace and one after.
KeywordAt(msg, kws, i) ==
    /\ i >= 3
    /\ i + 2 <= Len(msg)
    /\ Lower(msg[i]) \in kws
    /\ msg[i - 1] = SP
    /\ msg[i + 1] = SP

KeywordMatch(msg, kws) ==
    IF \E i \in 1..Len(msg) : KeywordAt(msg, kws, i)
    THEN CHOOSE i \in 1..Len(msg) :
            KeywordAt(msg, kws, i) /\ \A j \in 1..(i - 1) : ~KeywordAt(msg, kws, j)
    ELSE 0

ItemKeywords == {"on", "from", "in", "at"}
ForKeywords == {"for"}

ParseForPattern(msg) ==
    LET k == KeywordMatch(msg, ForKeywords)
        part1 == Strip(SubSeq(msg, 1, k - 1))
        part2 == Strip(SubSeq(msg, k + 1, Len(msg)))
    IN IF k # 0 /\ is_platform(part1) THEN <<SearchRequest(part2, part1)>>
       ELSE NoMatch

parse_keyword_separated(msg) ==
    LET k == KeywordMatch(msg, ItemKeywords)
        part1 == Strip(SubSeq(msg, 1, k - 1))
        part2 == Strip(SubSeq(msg, k + 1, Len(msg)))
    IN IF k # 0 /\ is_platform(part2) THEN <<SearchRequest(part1, part2)>>
       ELSE ParseForPattern(msg)

\* variant: a text without a platform is searched on Amazon by default
parse_single_item_DefaultAmazon(msg) ==
    IF is_platform(msg) THEN SearchRequest(None, msg)
    ELSE SearchRequest(msg, <<"amazon">>)

\* variant: the whole-text platform test is left out
parse_single_item_ItemOnly(msg) == SearchRequest(msg, None)

parse_single_item(msg) ==
    IF is_platform(msg) THEN SearchRequest(None, msg)
    ELSE SearchRequest(msg, None)

\* variant: `is not None` tests where the code tests truthiness
Validate_IsNotNone(sr) ==
    IF sr.item_name # None /\ sr.platform # None
    THEN [sr EXCEPT !.is_valid = TRUE]
    ELSE IF Truthy(sr.item_name) /\ ~Truthy(sr.platform)
    THEN [sr EXCEPT !.error_message = ErrMissingPlatform]
    ELSE IF Truthy(sr.platform) /\ ~Truthy(sr.item_name)
    THEN [sr EXCEPT !.error_message = ErrMissingItem]
    ELSE [sr EXCEPT !.error_message = ErrNotUnderstood]

\* the validation at the end of parse_search_message
Validate(sr) ==
    IF Truthy(sr.item_name) /\ Truthy(sr.platform)
    THEN [sr EXCEPT !.is_valid = TRUE]
    ELSE IF Truthy(sr.item_name) /\ ~Truthy(sr.platform)
    THEN [sr EXCEPT !.error_message = ErrMissingPlatform]
    ELSE IF Truthy(sr.platform) /\ ~Truthy(sr.item_name)
    THEN [sr EXCEPT !.error_message = ErrMissingItem]
    ELSE [sr EXCEPT !.error_message = ErrNotUnderstood]

\* a or b or c over Optional[SearchRequest]
FirstGrammar(cleaned) ==
    IF parse_comma_separated(cleaned) # NoMatch
    THEN parse_comma_separated(cleaned)[1]
    ELSE IF parse_keyword_separated(cleaned) # NoMatch
    THEN parse_keyword_separated(cleaned)[1]
    ELSE parse_single_item(cleaned)

parse_search_message(msg) ==
    IF msg = <<>> \/ Strip(msg) = <<>>
    THEN [NoRequest EXCEPT !.error_message = ErrEmpty]
    ELSE Validate(FirstGrammar(Strip(msg)))

----------------------------------------------------------------------------
(* Specification SpecParse: every lexed text of at most MaxLen lexemes is  *)
(* composed and handed to parse_search_message.                            *)

Compose(w) ==
    /\ search_request = NoRequest
    /\ Len(message) < MaxLen
    /\ Lexed(Append(message, w))
    /\ message' = Append(message, w)
    /\ UNCHANGED <<search_request, status_cache, now, last_op, requests,
                 extraction, ranking, parsing>>

Parse ==
    /\ search_request = NoRequest
    /\ search_request' = parse_search_message(message)
    /\ UNCHANGED <<message, status_cache, now, last_op, requests,
                 extraction, ranking, parsing>>

----------------------------------------------------------------------------
(* Status tracker: utils/platform_status.py *)

cache_duration == 15      \* timedelta(minutes=15)

NoStatus == "None"

\* the keys the callers use: the platform text of a SearchRequest
StatusKeys == {<<"amazon">>, <<"Bay">>}

\* the keys the cache is looked up with: the callers' keys and the canonical
\* identifier of every marketplace; a key that was never written has no
\* entry, <<>>
CacheKeys == StatusKeys \cup {<<"amazon">>, <<"ebay">>}

SearchTerms == {<<"laptop">>}

\* str.title() on one lexeme
Title(w) ==
    CASE w = "amazon" -> "Amazon"
      [] w = "ebay" -> "Ebay"
      [] w = "bay" -> "Bay"
      [] w = "ON" -> "On"
      [] w = "AMZN" -> "Amzn"
      [] OTHER -> w

TitleText(t) == [i \in 1..Len(t) |-> Title(t[i])]

\* variant: the product count is looked at before the success flag
StatusFor_CountFirst(success, product_count) ==
    IF product_count = 0 THEN "limited"
    ELSE IF ~success THEN "error"
    ELSE "working"

StatusFor(success, product_count) ==
    IF ~success THEN "error"
    ELSE IF product_count = 0 THEN "limited"
    ELSE "working"

\* variant: an existing entry is updated field by field and keeps its count
record_platform_result_KeepCount(cache, platform, success, product_count, t) ==
    [cache EXCEPT ![platform] =
        IF @ = <<>>
        THEN <<[status |-> StatusFor(success, product_count),
                last_checked |-> t,
                product_count |-> product_count,
                success |-> success]>>
        ELSE <<[@[1] EXCEPT !.status = StatusFor(success, product_count),
                            !.last_checked = t,
                            !.success = success]>>]

record_platform_result(cache, platform, success, product_count, t) ==
    [cache EXCEPT ![platform] =
        <<[status |-> StatusFor(success, product_count),
           last_checked |-> t,
           product_count |-> product_count,
           success |-> success]>>]

\* variant: an entry exactly as old as the window already counts as expired
Expired_AtWindow(entry, t) == t - entry.last_checked >= cache_duration

Expired(entry, t) == t - entry.last_checked > cache_duration

get_platform_status(cache, platform, t) ==
    IF cache[platform] = <<>> THEN NoStatus
    ELSE IF Expired(cache[platform][1], t) THEN NoStatus
    ELSE cache[platform][1].status

MsgUnavailable == "Temporarily Unavailable"
MsgAntiBot == "Anti-Bot Detection"
MsgNoResults == "No results found for"

\* variant: the cached status is read without the freshness check
get_user_message_Stale(cache, platform, search_term, t) ==
    LET status == IF cache[platform] = <<>> THEN NoStatus
                  ELSE cache[platform][1].status
        platform_display == TitleText(platform)
    IN IF status = "error"
       THEN [kind |-> MsgUnavailable, arg |-> platform_display]
       ELSE IF status = "limited"
       THEN [kind |-> MsgAntiBot, arg |-> platform_display]
       ELSE [kind |-> MsgNoResults, arg |-> search_term]

get_user_message(cache, platform, search_term, t) ==
    LET status == get_platform_status(cache, platform, t)
        platform_display == TitleText(platform)
    IN IF status = "error"
       THEN [kind |-> MsgUnavailable, arg |-> platform_display]
       ELSE IF status = "limited"
       THEN [kind |-> MsgAntiBot, arg |-> platform_display]
       ELSE [kind |-> MsgNoResults, arg |-> search_term]

NoMessage == [kind |-> "None", arg |-> <<>>]

----------------------------------------------------------------------------
(* Scraper registry: scrapers/scraper_manager.py *)

NoPlatform == "None"

scrapers == {"amazon", "ebay"}

\* variant: the alias table lacks the parser's token `bay`
aliases_WithoutBay ==
    [a \in {"amazon.com", "amazon", "amzn", "ebay.com", "ebay"} |->
        IF a \in {"amazon.com", "amazon", "amzn"} THEN "amazon" ELSE "ebay"]

aliases ==
    [a \in {"amazon.com", "amazon", "amzn", "ebay.com", "ebay", "bay"} |->
        IF a \in {"amazon.com", "amazon", "amzn"} THEN "amazon" ELSE "ebay"]

normalize_platform(platform) ==
    IF ~Truthy(platform) THEN NoPlatform
    ELSE LET t == Strip(platform)
         IN IF Len(t) # 1 THEN NoPlatform
            ELSE IF Lower(t[1]) \in scrapers THEN Lower(t[1])
            ELSE IF Lower(t[1]) \in DOMAIN aliases THEN aliases[Lower(t[1])]
            ELSE NoPlatform

is_platform_supported(platform) == normalize_platform(platform) # NoPlatform

\* len(products) products; a product is named by its place on the page
Products(n) == [i \in 1..n |-> i]

\* what `await scraper.search(query, max_results)` can do: return a list of
\* products or raise an Exception
Returned(products) == [raised |-> FALSE, products |-> products]
Raised == [raised |-> TRUE, products |-> <<>>]
ScraperOutcomes == {Returned(Products(n)) : n \in 0..MaxProducts} \cup {Raised}

\* variant: no try/except around the scraper call
ManagerSearch_NoCatch(platform, outcome) ==
    LET normalized_platform == normalize_platform(platform)
    IN IF normalized_platform = NoPlatform
       THEN [scraper |-> NoPlatform, raised |-> FALSE, products |-> <<>>]
       ELSE [scraper |-> normalized_platform, raised |-> outcome.raised,
             products |-> outcome.products]

\* ScraperManager.search, given what the selected scraper's search does
ManagerSearch(platform, outcome) ==
    LET normalized_platform == normalize_platform(platform)
    IN IF normalized_platform = NoPlatform
       THEN [scraper |-> NoPlatform, raised |-> FALSE, products |-> <<>>]
       ELSE IF outcome.raised
       THEN [scraper |-> normalized_platform, raised |-> FALSE, products |-> <<>>]
       ELSE [scraper |-> normalized_platform, raised |-> FALSE,
             products |-> outcome.products]

----------------------------------------------------------------------------
(* Specification SpecComponents: the status tracker and the registry are   *)
(* called directly, in any order, while the clock advances.                *)

NoOp ==
    [op |-> "none", platform |-> <<>>, at |-> 0, status |-> NoStatus,
     msg |-> NoMessage, outcome |-> Returned(<<>>),
     search |-> [scraper |-> NoPlatform, raised |-> FALSE, products |-> <<>>]]

Tick(d) ==
    /\ now + d <= MaxTime
    /\ now' = now + d
    /\ UNCHANGED <<message, search_request, status_cache, last_op, requests,
                 extraction, ranking, parsing>>

Record(p, success, count) ==
    /\ status_cache' = record_platform_result(status_cache, p, success, count, now)
    /\ last_op' = [NoOp EXCEPT !.op = "record", !.platform = p, !.at = now]
    /\ UNCHANGED <<message, search_request, now, requests,
                 extraction, ranking, parsing>>

GetStatus(p) ==
    /\ last_op' = [NoOp EXCEPT !.op = "get_status", !.platform = p, !.at = now,
                               !.status = get_platform_status(status_cache, p, now)]
    /\ UNCHANGED <<message, search_request, status_cache, now, requests,
                 extraction, ranking, parsing>>

GetUserMessage(p, term) ==
    /\ last_op' = [NoOp EXCEPT !.op = "get_user_message", !.platform = p, !.at = now,
                               !.msg = get_user_message(status_cache, p, term, now)]
    /\ UNCHANGED <<message, search_request, status_cache, now, requests,
                 extraction, ranking, parsing>>

SearchTokens == {<<"amazon">>, <<"Bay">>, <<"AMZN", " ">>, <<"laptop">>, <<>>, None}

Search(p, outcome) ==
    /\ last_op' = [NoOp EXCEPT !.op = "search", !.platform = p, !.at = now,
                               !.outcome = outcome,
                               !.search = ManagerSearch(p, outcome)]
    /\ UNCHANGED <<message, search_request, status_cache, now, requests,
                 extraction, ranking, parsing>>

----------------------------------------------------------------------------
(* Platform scrapers' search: scrapers/amazon_scraper.py, ebay_scraper.py  *)

max_attempts == 3         \* for attempt in range(3)

\* what one session.get(search_url) can do
Http200(n) == [kind |-> "http200", products |-> Products(n)]
Responses ==
    {Http200(n) : n \in 0..MaxProducts}
    \cup {[kind |-> k, products |-> <<>>] : k \in {"non200", "timeout", "error"}}

\* variant: a page without products is taken for a failed attempt
ScraperAttempt_RetryEmpty(attempt, response) ==
    IF response.kind = "http200" /\ response.products # <<>>
    THEN <<Returned(response.products)>>
    ELSE IF response.kind \in {"http200", "non200"}
    THEN IF attempt = max_attempts - 1 THEN <<Returned(<<>>)>> ELSE <<>>
    ELSE IF attempt = max_attempts - 1 THEN <<Raised>> ELSE <<>>

\* one pass of the retry loop on attempt number `attempt` (from 0): <<>> when
\* the loop goes on to the next attempt, otherwise how the loop is left
ScraperAttempt(attempt, response) ==
    IF response.kind = "http200" THEN <<Returned(response.products)>>
    ELSE IF response.kind = "non200"
    THEN IF attempt = max_attempts - 1 THEN <<Returned(<<>>)>> ELSE <<>>
    ELSE IF attempt = max_attempts - 1 THEN <<Raised>> ELSE <<>>

\* variant: the session is closed by a close() call after the loop, which a
\* raise passes over
SessionExit_CloseAfterLoop(inner) == IF inner.raised THEN "open" ELSE "closed"

\* async with aiohttp.ClientSession(...) as session: however the block is
\* left, by return or by raise, __aexit__ closes the session
SessionExit(inner) == "closed"

\* variant: search without its outer try/except
ScraperSearchExit_Propagate(inner) == inner

\* the try/except Exception around the whole body of search
ScraperSearchExit(inner) ==
    IF inner.raised THEN Returned(<<>>) ELSE inner

----------------------------------------------------------------------------
(* Product extraction: _parse_product of the three platform scrapers.      *)
(* An element is given by what the selectors of _parse_product find in it: *)
(* a field holds the text of the node a selector matches, already passed   *)
(* through _clean_text, or <<>> when the selector matches nothing.         *)
(* Ratings are in tenths (45 is 4.5).  The elements enumerated have no     *)
(* price, review-count or image node, so these fields keep their defaults. *)

\* len(text) of the texts that occur in the elements
TextLen(t) ==
    CASE t = "" -> 0
      [] t = "Cup" -> 3
      [] t = "Phone" -> 5
      [] t = "Widget" -> 6
      [] t = "SPONSORED" -> 9
      [] t = "Unknown Item" -> 12
      [] t = "Shop on eBay" -> 12
      [] t = "Vintage Camera" -> 14
      [] t = "New Listing Cup" -> 15
      [] t = "Sponsored Widget" -> 16
      [] t = "Wireless Mouse Pro X" -> 20
      [] t = "Vintage Camera | eBay" -> 21
      [] t = "LongTitle100" -> 100
      [] t = "LongTitle120" -> 120

\* `not title or title == "Unknown Item"`
Unset(title) == title = "" \/ title = "Unknown Item"

Min(a, b) == IF a < b THEN a ELSE b

\* href.startswith('http')
StartsWithHttp(href) ==
    href \in {"https://host/dp/B01", "https://host/help", "https://host/itm/1",
              "https://host/item/1"}

\* urljoin(self.base_url, href) for a path on the same host
urljoin(href) ==
    CASE href = "/dp/B01" -> "https://host/dp/B01"
      [] href = "/gp/B02" -> "https://host/gp/B02"
      [] href = "/help" -> "https://host/help"
      [] href = "/itm/1" -> "https://host/itm/1"
      [] href = "/item/1" -> "https://host/item/1"
      [] OTHER -> href

\* if url and not url.startswith('http'): url = urljoin(base_url, url)
Resolve(href) ==
    IF href # "" /\ ~StartsWithHttp(href) THEN urljoin(href) ELSE href

\* '/dp/' in href or '/gp/' in href
IsProductHref(href) == href \in {"/dp/B01", "/gp/B02", "https://host/dp/B01"}
\* a[href*="/dp/"]
HasDp(href) == href \in {"/dp/B01", "https://host/dp/B01"}

Product(title, rating, product_url, source) ==
    [title |-> title, price |-> "N/A", rating |-> Min(rating, 50), sales |-> 0,
     image_url |-> "", product_url |-> product_url, source |-> source]

\* Optional[Product]: <<>> is None
NoProduct == <<>>

\* index of the first TRUE in a sequence of tests, 0 when there is none:
\* the element at which a `for ...: if test: ...; break` loop stops
FirstTrue(tests) ==
    IF \E i \in 1..Len(tests) : tests[i]
    THEN CHOOSE i \in 1..Len(tests) :
            tests[i] /\ \A j \in 1..(i - 1) : ~tests[j]
    ELSE 0

\* for selector in selectors: if the selector matches, title = its text and
\* the loop is left when `title and len(title) > 5`; found lists the texts of
\* the selectors that match, in selector order
IsLong(t) == TextLen(t) > 5
FirstLong(texts) == FirstTrue([i \in 1..Len(texts) |-> IsLong(texts[i])])
AssignUntilLong(title, found) ==
    IF FirstLong(found) # 0 THEN found[FirstLong(found)]
    ELSE IF found = <<>> THEN title
    ELSE found[Len(found)]

\* the texts of the entries of an Optional sequence that are present
RECURSIVE FoundTexts(_)
FoundTexts(opts) ==
    IF opts = <<>> THEN <<>>
    ELSE (IF opts[1] = <<>> THEN <<>> ELSE <<opts[1][1]>>) \o FoundTexts(Tail(opts))

(* Amazon: element fields                                                  *)
(*   title_recipe  text of the data-cy="title-recipe" node                 *)
(*   h2            the link inside h2.a-size-mini|a-size-base-plus         *)
(*   links         every a[href], in document order                        *)
(*   fallback      texts of `h2 a span`, `h2 span`, title-recipe-link      *)
(*   rating_match  the number before "out of" in span.a-icon-alt           *)

\* Methods 1 to 4 of the title extraction
IsTitleLink(link) == IsProductHref(link.href) /\ TextLen(link.text) > 15
IsDpLink(link) == HasDp(link.href)
FirstTitleLink(links) ==
    FirstTrue([i \in 1..Len(links) |-> IsTitleLink(links[i])])
FirstDpLink(links) == FirstTrue([i \in 1..Len(links) |-> IsDpLink(links[i])])

amazon_title(e) ==
    LET t1 == IF e.title_recipe # <<>> THEN e.title_recipe[1] ELSE "Unknown Item"
        t2 == IF Unset(t1) /\ e.h2 # <<>> THEN e.h2[1].text ELSE t1
        k == FirstTitleLink(e.links)
        t3 == IF Unset(t2) /\ k # 0 THEN e.links[k].text ELSE t2
        d == FirstDpLink(e.links)
        found == FoundTexts(e.fallback)
                    \o (IF d # 0 THEN <<e.links[d].text>> ELSE <<>>)
    IN IF Unset(t3) THEN AssignUntilLong(t3, found) ELSE t3

IsProductLink(link) == link.href # "" /\ IsProductHref(link.href)
FirstProductLink(links) ==
    FirstTrue([i \in 1..Len(links) |-> IsProductLink(links[i])])

amazon_product_url(e) ==
    LET k == FirstProductLink(e.links)
    IN IF k # 0 THEN Resolve(e.links[k].href)
       ELSE IF e.h2 # <<>> THEN Resolve(e.h2[1].href)
       ELSE ""

amazon_rating(e) == IF e.rating_match # <<>> THEN e.rating_match[1] ELSE 0

amazon_parse_product(e) ==
    LET title == amazon_title(e)
    IN IF title = "" \/ title = "Unknown Item" \/ TextLen(title) < 5
       THEN NoProduct
       ELSE <<Product(title, amazon_rating(e), amazon_product_url(e), "Amazon")>>

(* eBay: element fields                                                    *)
(*   methods       per title method, <<>> when it finds no node, else      *)
(*                 <<sources>>: the texts of the text sources found in the *)
(*                 node, in order (the node itself is the last source)     *)
(*   links         texts of every a[href], in document order               *)
(*   review_count  the first number in span.s-item__reviews-count          *)
(*   link          href of a.s-item__link                                  *)

\* the text sources of one found node: the first with more than 5 characters
\* becomes the title
ebay_method(title, sources) ==
    IF FirstLong(sources) # 0 THEN sources[FirstLong(sources)]
    ELSE title

\* for method in title_methods, left after a found node when
\* `title and len(title) > 5`
RECURSIVE ebay_title_loop(_, _)
ebay_title_loop(title, methods) ==
    IF methods = <<>> THEN title
    ELSE IF methods[1] = <<>> THEN ebay_title_loop(title, Tail(methods))
    ELSE LET t == ebay_method(title, methods[1][1])
         IN IF t # "" /\ TextLen(t) > 5 THEN t
            ELSE ebay_title_loop(t, Tail(methods))

\* the title taken from any link when the methods left none
IsLinkTitle(t) == t # "" /\ TextLen(t) > 10
FirstLinkTitle(links) ==
    FirstTrue([i \in 1..Len(links) |-> IsLinkTitle(links[i])])
ebay_link_title(title, links) ==
    IF (title = "" \/ TextLen(title) <= 5) /\ FirstLinkTitle(links) # 0
    THEN links[FirstLinkTitle(links)]
    ELSE title

\* prefixes "New Listing", "SPONSORED", "Hot This Week" removed, the text
\* cut at "|", the suffix "Shop on eBay" removed, stripped each time
ebay_clean_title(title) ==
    CASE title = "New Listing Cup" -> "Cup"
      [] title = "SPONSORED" -> ""
      [] title = "Vintage Camera | eBay" -> "Vintage Camera"
      [] title = "Shop on eBay" -> ""
      [] OTHER -> title

\* any(pattern.lower() in title.lower() for pattern in ad_patterns)
IsAd(title) == title \in {"Shop on eBay", "Sponsored Widget", "SPONSORED"}

ebay_title(e) ==
    ebay_clean_title(ebay_link_title(ebay_title_loop("Unknown Item", e.methods),
                                     e.links))

\* variant: the buckets start at their threshold instead of above it
ebay_rating_AtThreshold(e) ==
    IF e.review_count = <<>> THEN 0
    ELSE LET review_count == e.review_count[1]
         IN IF review_count >= 100 THEN 50
            ELSE IF review_count >= 50 THEN 45
            ELSE IF review_count >= 20 THEN 40
            ELSE IF review_count >= 10 THEN 35
            ELSE IF review_count >= 5 THEN 30
            ELSE 25

\* review count to rating
ebay_rating(e) ==
    IF e.review_count = <<>> THEN 0
    ELSE LET review_count == e.review_count[1]
         IN IF review_count > 100 THEN 50
            ELSE IF review_count > 50 THEN 45
            ELSE IF review_count > 20 THEN 40
            ELSE IF review_count > 10 THEN 35
            ELSE IF review_count > 5 THEN 30
            ELSE 25

ebay_product_url(e) == IF e.link # <<>> THEN Resolve(e.link[1]) ELSE ""

ebay_parse_product(e) ==
    LET title == ebay_title(e)
    IN IF title = "" \/ title = "Unknown Item" \/ TextLen(title) < 5
       THEN NoProduct
       ELSE IF IsAd(title) THEN NoProduct
       ELSE <<Product(title, ebay_rating(e), ebay_product_url(e), "eBay")>>

(* AliExpress: element fields                                              *)
(*   titles   title attribute or text of each title selector that matches, *)
(*            in selector order                                            *)
(*   ratings  _extract_number of each rating selector that matches         *)
(*   link     href of the element itself or of its first link              *)

aliexpress_title(e) == AssignUntilLong("Unknown Item", e.titles)

\* for selector in rating_selectors, left when rating > 0
IsPositive(r) == r > 0
FirstPositive(ratings) ==
    FirstTrue([i \in 1..Len(ratings) |-> IsPositive(ratings[i])])
aliexpress_rating(e) ==
    IF FirstPositive(e.ratings) # 0
    THEN e.ratings[FirstPositive(e.ratings)]
    ELSE IF e.ratings = <<>> THEN 0
    ELSE e.ratings[Len(e.ratings)]

aliexpress_product_url(e) == IF e.link # <<>> THEN Resolve(e.link[1]) ELSE ""

\* title[:100]
Truncate100(title) == IF title = "LongTitle120" THEN "LongTitle100" ELSE title

aliexpress_parse_product(e) ==
    LET title == aliexpress_title(e)
        product_url == aliexpress_product_url(e)
    IN IF title = "" \/ title = "Unknown Item" \/ product_url = ""
       THEN NoProduct
       ELSE <<Product(Truncate100(title), aliexpress_rating(e), product_url,
                      "AliExpress")>>

----------------------------------------------------------------------------
(* Specification SpecProducts: _parse_product of each scraper is applied   *)
(* to one element of a result page.                                        *)

Opt(S) == {<<>>} \cup {<<x>> : x \in S}
SeqUpTo(S, n) == UNION {[1..k -> S] : k \in 0..n}

\* a link inside the h2 that carries an href is one of the element's links,
\* and a span inside `h2 a` is a span inside h2
WellFormedAmazon(e) ==
    /\ (e.h2 # <<>> /\ e.h2[1].href # "")
            => \E i \in 1..Len(e.links) : e.links[i] = e.h2[1]
    /\ e.fallback[1] # <<>> => e.fallback[2] # <<>>

AmazonElements ==
    {e \in [title_recipe : Opt({"", "Cup", "Phone", "Wireless Mouse Pro X",
                                "Unknown Item"}),
            h2 : Opt([text : {"", "Cup"}, href : {"", "/help", "/dp/B01"}]),
            links : SeqUpTo([text : {"Cup", "Wireless Mouse Pro X"},
                             href : {"/dp/B01", "/help"}], MaxLinks),
            fallback : [1..3 -> Opt({"Cup", "Widget"})],
            rating_match : Opt({0, 45, 70})] : WellFormedAmazon(e)}

EbaySources ==
    {<<"Cup">>, <<"Cup", "New Listing Cup">>, <<"Vintage Camera | eBay">>,
     <<"Sponsored Widget">>}
EbayLaterSources == {<<"Cup">>, <<"Vintage Camera | eBay">>}

EbayElements ==
    {e \in [methods : [1..5 -> Opt(EbaySources)],
            links : SeqUpTo({"Wireless Mouse Pro X"}, MaxLinks),
            review_count : Opt({5, 6, 10, 11, 20, 21, 50, 51, 100, 101}),
            link : Opt({"", "/itm/1"})] :
        \A i \in 2..5 : e.methods[i] \in Opt(EbayLaterSources)}

AliExpressElements ==
    [titles : SeqUpTo({"", "Cup", "Phone", "Widget", "Unknown Item",
                       "LongTitle120"}, MaxFound),
     ratings : SeqUpTo({0, 45, 70}, MaxFound),
     link : Opt({"", "/item/1", "https://host/item/1"})]

NoExtraction == [scraper |-> "none", element |-> <<>>, product |-> NoProduct]

NoRanking == [products |-> <<>>, method |-> "none", limit |-> 0, result |-> <<>>]

NoParsing == [soup_raises |-> FALSE, product_elements |-> <<>>,
              max_results |-> 0, called |-> FALSE, products |-> <<>>]

ExtractionUnchanged ==
    UNCHANGED <<message, search_request, status_cache, now, last_op, requests,
                ranking, parsing>>

AmazonParse ==
    /\ extraction = NoExtraction
    /\ ranking = NoRanking
    /\ parsing = NoParsing
    /\ \E e \in AmazonElements :
        extraction' = [scraper |-> "amazon", element |-> e,
                       product |-> amazon_parse_product(e)]
    /\ ExtractionUnchanged

EbayParse ==
    /\ extraction = NoExtraction
    /\ ranking = NoRanking
    /\ parsing = NoParsing
    /\ \E e \in EbayElements :
        extraction' = [scraper |-> "ebay", element |-> e,
                       product |-> ebay_parse_product(e)]
    /\ ExtractionUnchanged

AliExpressParse ==
    /\ extraction = NoExtraction
    /\ ranking = NoRanking
    /\ parsing = NoParsing
    /\ \E e \in AliExpressElements :
        extraction' = [scraper |-> "aliexpress", element |-> e,
                       product |-> aliexpress_parse_product(e)]
    /\ ExtractionUnchanged

----------------------------------------------------------------------------
(* Ranking: utils/item_comparator.py.  Ratings are in tenths, prices in    *)
(* whole dollars; a score component is kept as an integer numerator over   *)
(* the denominator named in its comment, so that the arithmetic is exact.  *)

\* a rating that is None: comparing it or dividing it raises TypeError
NoneRating == 0 - 1000

Max(a, b) == IF a > b THEN a ELSE b

\* min(rating / 5.0, 1.0) if rating > 0 else 0.0, in fiftieths
rating_score(rating) == IF rating > 0 THEN Min(rating, 50) ELSE 0

\* math.log10(sales + 1) for the sales counts that occur
Log10Plus1(sales) ==
    CASE sales = 9 -> 1
      [] sales = 99 -> 2
      [] sales = 999999 -> 6
      [] sales = 9999999 -> 7

\* min(log10(sales + 1) / 6.0, 1.0) if sales > 0 else 0.0, in sixths
sales_score(sales) == IF sales > 0 THEN Min(Log10Plus1(sales), 6) ELSE 0

\* re.sub(r'[^\d.,]', '', price), commas removed, float() or 0.0
extract_price_value(price_str) ==
    CASE price_str = "" -> 0
      [] price_str = "N/A" -> 0
      [] price_str = "$0" -> 0
      [] price_str = "$100" -> 100
      [] price_str = "$1,500" -> 1500

\* max(0, 1.0 - min(price_value / 1000.0, 1.0)) if price_value > 0 else 0.5,
\* in thousandths
price_score(price_str) ==
    LET price_value == extract_price_value(price_str)
    IN IF price_value > 0 THEN Max(0, 1000 - Min(price_value, 1000)) ELSE 500

\* rating 0.4, sales 0.3, price 0.3; the total in 1/30000; a TypeError in the
\* body is caught and gives 0.0
calculate_score(product) ==
    IF product.rating = NoneRating THEN 0
    ELSE rating_score(product.rating) * 240
         + sales_score(product.sales) * 1500
         + price_score(product.price) * 9

\* sorted(): the keys are computed once per element; the sort is stable and
\* ascending in the key
\* variant: an element is placed before the elements with an equal key
RECURSIVE InsertAscending_Unstable(_, _)
InsertAscending_Unstable(sorted, p) ==
    IF sorted = <<>> THEN <<p>>
    ELSE IF sorted[Len(sorted)].key < p.key THEN Append(sorted, p)
    ELSE Append(InsertAscending_Unstable(SubSeq(sorted, 1, Len(sorted) - 1), p),
                sorted[Len(sorted)])

RECURSIVE InsertAscending(_, _)
InsertAscending(sorted, p) ==
    IF sorted = <<>> THEN <<p>>
    ELSE IF sorted[Len(sorted)].key <= p.key THEN Append(sorted, p)
    ELSE Append(InsertAscending(SubSeq(sorted, 1, Len(sorted) - 1), p),
                sorted[Len(sorted)])

RECURSIVE SortKeyed(_)
SortKeyed(keyed) ==
    IF keyed = <<>> THEN <<>>
    ELSE InsertAscending(SortKeyed(SubSeq(keyed, 1, Len(keyed) - 1)),
                         keyed[Len(keyed)])

Items(keyed) == [i \in 1..Len(keyed) |-> keyed[i].item]

\* sorted(products, key=...), keys[i] being the key of products[i]
SortedAscending(products, keys) ==
    Items(SortKeyed([i \in 1..Len(products) |->
                        [key |-> keys[i], item |-> products[i]]]))

\* sorted(products, key=..., reverse=True): descending, equal keys keep their
\* input order
SortedDescending(products, keys) ==
    Items(SortKeyed([i \in 1..Len(products) |->
                        [key |-> 0 - keys[i], item |-> products[i]]]))

\* variant: the limit is not applied
Slice_Whole(seq, limit) == seq

\* seq[:limit]
Slice(seq, limit) ==
    IF limit >= 0 THEN SubSeq(seq, 1, Min(limit, Len(seq)))
    ELSE SubSeq(seq, 1, Max(0, Len(seq) + limit))

\* comparing the keys raises TypeError: a None rating meets another key
RatingCompareRaises(products) ==
    Len(products) >= 2 /\ \E i \in 1..Len(products) : products[i].rating = NoneRating

\* the key functions of the four methods, applied to every product
ScoreKeys(products) ==
    [i \in 1..Len(products) |-> calculate_score(products[i])]
PriceKeys(products) ==
    [i \in 1..Len(products) |-> extract_price_value(products[i].price)]
RatingKeys(products) == [i \in 1..Len(products) |-> products[i].rating]
SalesKeys(products) == [i \in 1..Len(products) |-> products[i].sales]

rank_products(products, ranking_method, limit) ==
    IF products = <<>> THEN <<>>
    ELSE IF ranking_method = "score"
    THEN Slice(SortedDescending(products, ScoreKeys(products)), limit)
    ELSE IF ranking_method = "price"
    THEN Slice(SortedAscending(products, PriceKeys(products)), limit)
    ELSE IF ranking_method = "rating"
    THEN IF RatingCompareRaises(products) THEN Slice(products, limit)
         ELSE Slice(SortedDescending(products, RatingKeys(products)), limit)
    ELSE IF ranking_method = "sales"
    THEN Slice(SortedDescending(products, SalesKeys(products)), limit)
    ELSE Slice(SortedDescending(products, ScoreKeys(products)), limit)

(* Specification SpecProducts: rank_products is applied to one list.       *)

RankedProduct(title, rating, sales, price) ==
    [title |-> title, price |-> price, rating |-> rating, sales |-> sales,
     image_url |-> "", product_url |-> "https://host/dp/B01", source |-> "Amazon"]

ProductPool ==
    { RankedProduct("A", 45, 99, "$100"),
      RankedProduct("B", 45, 99, "$100"),
      RankedProduct("C", 70, 0, "N/A"),
      RankedProduct("D", 0, 999999, "$1,500"),
      RankedProduct("E", 0 - 10, 9, "$0"),
      RankedProduct("F", 50, 9999999, "$100"),
      RankedProduct("G", NoneRating, 0, "") }

RankingMethods == {"score", "price", "rating", "sales", "popularity"}
Limits == (0 - 1)..(MaxRanked + 1)

Rank ==
    /\ extraction = NoExtraction
    /\ ranking = NoRanking
    /\ parsing = NoParsing
    /\ \E products \in SeqUpTo(ProductPool, MaxRanked), method \in RankingMethods,
          limit \in Limits :
        ranking' = [products |-> products, method |-> method, limit |-> limit,
                    result |-> rank_products(products, method, limit)]
    /\ UNCHANGED <<message, search_request, status_cache, now, last_op, requests,
                   extraction, parsing>>

----------------------------------------------------------------------------
(* Page parsing: _parse_search_results of the Amazon and eBay scrapers.    *)
(* A candidate element is given by what _parse_product does with it:       *)
(* return a Product, return None, or raise.                                *)

Candidate(outcome, product) == [outcome |-> outcome, product |-> product]

PageCandidates ==
    { Candidate("product", <<Product("Widget", 45, "https://host/dp/B01", "Amazon")>>),
      Candidate("product", <<Product("Vintage Camera", 40, "https://host/itm/1", "eBay")>>),
      Candidate("none", NoProduct),
      Candidate("raises", NoProduct) }

\* variant: the try/except is around the loop, so a raising element ends it
RECURSIVE ParseElements_AbortOnRaise(_)
ParseElements_AbortOnRaise(elements) ==
    IF elements = <<>> \/ elements[1].outcome = "raises" THEN <<>>
    ELSE (IF elements[1].outcome = "product" THEN <<elements[1].product[1]>>
          ELSE <<>>)
         \o ParseElements_AbortOnRaise(Tail(elements))

\* for element in ...: try: product = self._parse_product(element);
\* if product: products.append(product); except Exception: continue
RECURSIVE ParseElements(_)
ParseElements(elements) ==
    IF elements = <<>> THEN <<>>
    ELSE (IF elements[1].outcome = "product" THEN <<elements[1].product[1]>>
          ELSE <<>>)
         \o ParseElements(Tail(elements))

\* soup_raises: BeautifulSoup(html, 'lxml') or find_all raises, which the
\* outer except turns into []
parse_search_results(soup_raises, product_elements, max_results) ==
    IF soup_raises THEN <<>>
    ELSE ParseElements(Slice(product_elements, max_results))

MaxResultsValues == (0 - 1)..(MaxElements + 1)

ParseSearchResults ==
    /\ extraction = NoExtraction
    /\ ranking = NoRanking
    /\ parsing = NoParsing
    /\ \E soup_raises \in BOOLEAN, product_elements \in SeqUpTo(PageCandidates, MaxElements),
          max_results \in MaxResultsValues :
        /\ soup_raises => product_elements = <<>>
        /\ parsing' = [soup_raises |-> soup_raises,
                       product_elements |-> product_elements,
                       max_results |-> max_results, called |-> TRUE,
                       products |-> parse_search_results(soup_raises,
                                        product_elements, max_results)]
    /\ UNCHANGED <<message, search_request, status_cache, now, last_op, requests,
                   extraction, ranking>>

----------------------------------------------------------------------------
(* The search handler: bot/handlers.py, BotHandlers.search_products        *)

Requests == {"r1"}

SampleTexts ==
    { <<"laptop", COMMA, SP, "amazon">>,
      <<"Bay", COMMA, SP, "laptop">>,
      <<"laptop", SP, "ON", SP, "amazon">>,
      <<"laptop">>,
      <<"Bay">>,
      <<SP>> }

ReplySendQuery == "Please send me a search query."
ReplyUnsupported == "is not supported"
ReplyResults == "results"
ReplyGeneralError == "general error"
ReplyWentWrong == "Something went wrong"

Msg(kind, arg) == [kind |-> kind, arg |-> arg]

IdleRequest ==
    [pc |-> "idle", text |-> <<>>, sr |-> NoRequest, attempt |-> 0, log |-> <<>>,
     scraper |-> <<>>, manager |-> <<>>, products |-> <<>>, recorded |-> <<>>,
     pending |-> NoMessage, reply |-> NoMessage,
     session |-> "none", opened |-> 0, fetched |-> <<>>]

\* aiohttp.ClientSession(...) at the head of the async with, in search
SessionEnter(q) == [q EXCEPT !.pc = "fetch", !.session = "open", !.opened = @ + 1]

PipelineUnchanged ==
    UNCHANGED <<message, search_request, last_op, extraction, ranking, parsing>>

\* variant: the handler goes on to the platform test without looking at
\* is_valid
Receive_SkipValidity(r, text) ==
    /\ requests[r].pc \in {"idle", "done"}
    /\ LET message_text == Strip(text)
           sr == parse_search_message(message_text)
           q == [IdleRequest EXCEPT !.text = message_text]
       IN requests' = [requests EXCEPT ![r] =
            IF message_text = <<>>
            THEN [q EXCEPT !.pc = "reply", !.pending = Msg(ReplySendQuery, <<>>)]
            ELSE IF ~is_platform_supported(sr.platform)
            THEN [q EXCEPT !.pc = "reply", !.sr = sr,
                           !.pending = Msg(ReplyUnsupported, sr.platform)]
            ELSE [q EXCEPT !.pc = "typing", !.sr = sr]]
    /\ UNCHANGED <<status_cache, now>>
    /\ PipelineUnchanged

\* an update arrives; the handler runs to its first await
Receive(r, text) ==
    /\ requests[r].pc \in {"idle", "done"}
    /\ LET message_text == Strip(text)
           sr == parse_search_message(message_text)
           q == [IdleRequest EXCEPT !.text = message_text]
       IN requests' = [requests EXCEPT ![r] =
            IF message_text = <<>>
            THEN [q EXCEPT !.pc = "reply", !.pending = Msg(ReplySendQuery, <<>>)]
            ELSE IF ~sr.is_valid
            THEN [q EXCEPT !.pc = "reply", !.sr = sr,
                           !.pending = Msg(sr.error_message, <<>>)]
            ELSE IF ~is_platform_supported(sr.platform)
            THEN [q EXCEPT !.pc = "reply", !.sr = sr,
                           !.pending = Msg(ReplyUnsupported, sr.platform)]
            ELSE [q EXCEPT !.pc = "typing", !.sr = sr]]
    /\ UNCHANGED <<status_cache, now>>
    /\ PipelineUnchanged

\* await update.message.reply_text(...) of a guidance text
Reply(r, ok) ==
    /\ requests[r].pc = "reply"
    /\ requests' = [requests EXCEPT ![r] =
            IF ok THEN [@ EXCEPT !.pc = "done", !.reply = requests[r].pending]
            ELSE [@ EXCEPT !.pc = "outer_except"]]
    /\ UNCHANGED <<status_cache, now>>
    /\ PipelineUnchanged

\* await update.message.chat.send_action(action="typing")
Typing(r, ok) ==
    /\ requests[r].pc = "typing"
    /\ requests' = [requests EXCEPT ![r].pc = IF ok THEN "announce" ELSE "outer_except"]
    /\ UNCHANGED <<status_cache, now>>
    /\ PipelineUnchanged

\* await update.message.reply_text("Searching ..."), then ScraperManager.search
\* up to the scraper's first await
Announce(r, ok) ==
    /\ requests[r].pc = "announce"
    /\ requests' = [requests EXCEPT ![r] =
            IF ~ok THEN [@ EXCEPT !.pc = "outer_except"]
            ELSE IF normalize_platform(requests[r].sr.platform) = "ebay"
            THEN [@ EXCEPT !.pc = "pre_delay"]
            ELSE SessionEnter(requests[r])]
    /\ UNCHANGED <<status_cache, now>>
    /\ PipelineUnchanged

\* EbayScraper.search: await asyncio.sleep(2.0) before the session is opened
PreDelay(r) ==
    /\ requests[r].pc = "pre_delay"
    /\ requests' = [requests EXCEPT ![r] = SessionEnter(requests[r])]
    /\ UNCHANGED <<status_cache, now>>
    /\ PipelineUnchanged

\* variant: the advisory is taken from the table before the outcome is
\* recorded in it
AfterSearch_MessageFirst(q, outcome, cache, t) ==
    LET m == ManagerSearch(q.sr.platform, outcome)
        products == m.products
        cache2 == record_platform_result(cache, q.sr.platform, TRUE, Len(products), t)
        q2 == [q EXCEPT !.scraper = <<outcome>>, !.manager = <<m>>,
                        !.products = products,
                        !.recorded = Append(@, cache2[q.sr.platform][1].status)]
    IN [cache |-> cache2,
        req |-> IF products = <<>>
                THEN [q2 EXCEPT !.pc = "edit_status",
                                !.pending = get_user_message(cache, q.sr.platform,
                                                             q.sr.item_name, t)]
                ELSE [q2 EXCEPT !.pc = "deliver",
                                !.pending = Msg(ReplyResults, q.sr.item_name)]]

\* variant: an empty list is recorded as a failed search
AfterSearch_EmptyIsFailure(q, outcome, cache, t) ==
    LET m == ManagerSearch(q.sr.platform, outcome)
        products == m.products
        cache2 == record_platform_result(cache, q.sr.platform, products # <<>>,
                                         Len(products), t)
        q2 == [q EXCEPT !.scraper = <<outcome>>, !.manager = <<m>>,
                        !.products = products,
                        !.recorded = Append(@, cache2[q.sr.platform][1].status)]
    IN [cache |-> cache2,
        req |-> IF products = <<>>
                THEN [q2 EXCEPT !.pc = "edit_status",
                                !.pending = get_user_message(cache2, q.sr.platform,
                                                             q.sr.item_name, t)]
                ELSE [q2 EXCEPT !.pc = "deliver",
                                !.pending = Msg(ReplyResults, q.sr.item_name)]]

\* variant: the outcome is recorded under the canonical platform name while
\* the advisory is asked for the platform text of the request
AfterSearch_RecordNormalized(q, outcome, cache, t) ==
    LET m == ManagerSearch(q.sr.platform, outcome)
        products == m.products
        key == <<normalize_platform(q.sr.platform)>>
        cache2 == record_platform_result(cache, key, TRUE, Len(products), t)
        q2 == [q EXCEPT !.scraper = <<outcome>>, !.manager = <<m>>,
                        !.products = products,
                        !.recorded = Append(@, cache2[key][1].status)]
    IN [cache |-> cache2,
        req |-> IF products = <<>>
                THEN [q2 EXCEPT !.pc = "edit_status",
                                !.pending = get_user_message(cache2, q.sr.platform,
                                                             q.sr.item_name, t)]
                ELSE [q2 EXCEPT !.pc = "deliver",
                                !.pending = Msg(ReplyResults, q.sr.item_name)]]

\* the handler from the return of ScraperManager.search to its next await
AfterSearch(q, outcome, cache, t) ==
    LET m == ManagerSearch(q.sr.platform, outcome)
        products == m.products
        cache2 == record_platform_result(cache, q.sr.platform, TRUE, Len(products), t)
        q2 == [q EXCEPT !.scraper = <<outcome>>, !.manager = <<m>>,
                        !.products = products,
                        !.recorded = Append(@, cache2[q.sr.platform][1].status)]
    IN [cache |-> cache2,
        req |-> IF products = <<>>
                THEN [q2 EXCEPT !.pc = "edit_status",
                                !.pending = get_user_message(cache2, q.sr.platform,
                                                             q.sr.item_name, t)]
                ELSE [q2 EXCEPT !.pc = "deliver",
                                !.pending = Msg(ReplyResults, q.sr.item_name)]]

\* one attempt of the retry loop: the sleep before a retry, session.get and
\* response.text(); on the last pass the scraper, the registry and the handler
\* run on to the handler's next await
Fetch(r, response) ==
    /\ requests[r].pc = "fetch"
    /\ LET q == [requests[r] EXCEPT !.log = Append(@, response.kind),
                                    !.fetched = Append(@, response)]
           res == ScraperAttempt(requests[r].attempt, response)
       IN IF res = <<>>
          THEN /\ requests' = [requests EXCEPT ![r] = [q EXCEPT !.attempt = @ + 1]]
               /\ UNCHANGED status_cache
          ELSE LET left == [q EXCEPT !.session = SessionExit(res[1])]
                   after == AfterSearch(left, ScraperSearchExit(res[1]),
                                        status_cache, now)
               IN /\ requests' = [requests EXCEPT ![r] = after.req]
                  /\ status_cache' = after.cache
    /\ UNCHANGED now
    /\ PipelineUnchanged

\* except Exception as search_error: the failure is recorded and the error
\* text chosen; mentions_timeout: "timeout" or "unavailable" in str(search_error)
SearchError(q, mentions_timeout, cache, t) ==
    LET cache2 == record_platform_result(cache, q.sr.platform, FALSE, 0, t)
    IN [cache |-> cache2,
        req |-> [q EXCEPT !.pc = "edit_error",
                          !.recorded = Append(@, cache2[q.sr.platform][1].status),
                          !.pending =
                              IF mentions_timeout
                              THEN get_user_message(cache2, q.sr.platform,
                                                    q.sr.item_name, t)
                              ELSE Msg(ReplyGeneralError, <<>>)]]

\* await searching_message.edit_text(status_message) on an empty result, or
\* the delete / header / product cards / footer sends on a non-empty one
Deliver(r, ok, mentions_timeout) ==
    /\ requests[r].pc \in {"edit_status", "deliver"}
    /\ IF ok
       THEN /\ requests' = [requests EXCEPT ![r] =
                    [@ EXCEPT !.pc = "done", !.reply = requests[r].pending]]
            /\ UNCHANGED status_cache
       ELSE LET after == SearchError(requests[r], mentions_timeout, status_cache, now)
            IN /\ requests' = [requests EXCEPT ![r] = after.req]
               /\ status_cache' = after.cache
    /\ UNCHANGED now
    /\ PipelineUnchanged

\* await searching_message.edit_text(error_message) in the except branch
EditError(r, ok) ==
    /\ requests[r].pc = "edit_error"
    /\ requests' = [requests EXCEPT ![r] =
            IF ok THEN [@ EXCEPT !.pc = "done", !.reply = requests[r].pending]
            ELSE [@ EXCEPT !.pc = "outer_except"]]
    /\ UNCHANGED <<status_cache, now>>
    /\ PipelineUnchanged

\* the outermost except: one more reply_text, whose own failure is passed over
OuterExcept(r, ok) ==
    /\ requests[r].pc = "outer_except"
    /\ requests' = [requests EXCEPT ![r] =
            [@ EXCEPT !.pc = "done",
                      !.reply = IF ok THEN Msg(ReplyWentWrong, <<>>) ELSE NoMessage]]
    /\ UNCHANGED <<status_cache, now>>
    /\ PipelineUnchanged

----------------------------------------------------------------------------
(* Specifications *)

Init ==
    /\ message = <<>>
    /\ search_request = NoRequest
    /\ status_cache = [k \in CacheKeys |-> <<>>]
    /\ now = 0
    /\ last_op = NoOp
    /\ requests = [r \in Requests |-> IdleRequest]
    /\ extraction = NoExtraction
    /\ ranking = NoRanking
    /\ parsing = NoParsing

\* the clock moves on while a handler is suspended or between updates
PipelineTick == Tick(cache_duration + 1)

Next ==
    \/ \E r \in Requests, text \in SampleTexts : Receive(r, text)
    \/ \E r \in Requests, ok \in BOOLEAN : Reply(r, ok)
    \/ \E r \in Requests, ok \in BOOLEAN : Typing(r, ok)
    \/ \E r \in Requests, ok \in BOOLEAN : Announce(r, ok)
    \/ \E r \in Requests : PreDelay(r)
    \/ \E r \in Requests, response \in Responses : Fetch(r, response)
    \/ \E r \in Requests, ok \in BOOLEAN, mt \in BOOLEAN : Deliver(r, ok, mt)
    \/ \E r \in Requests, ok \in BOOLEAN : EditError(r, ok)
    \/ \E r \in Requests, ok \in BOOLEAN : OuterExcept(r, ok)
    \/ PipelineTick

Spec == Init /\ [][Next]_vars

(* Specification SpecFair: the event loop resumes a suspended handler when   *)
(* the operation it awaits has ended, and every awaited operation ends: a   *)
(* fetch completes or runs into its ClientTimeout, a sleep elapses, a send  *)
(* to Telegram returns or raises.  Nothing obliges a user to send updates.  *)
(* The clock stands still: no step of a request waits for a time of day.    *)

HandlerStep(r) ==
    \/ \E ok \in BOOLEAN : Reply(r, ok)
    \/ \E ok \in BOOLEAN : Typing(r, ok)
    \/ \E ok \in BOOLEAN : Announce(r, ok)
    \/ PreDelay(r)
    \/ \E response \in Responses : Fetch(r, response)
    \/ \E ok \in BOOLEAN, mt \in BOOLEAN : Deliver(r, ok, mt)
    \/ \E ok \in BOOLEAN : EditError(r, ok)
    \/ \E ok \in BOOLEAN : OuterExcept(r, ok)

NextFair ==
    \/ \E r \in Requests, text \in SampleTexts : Receive(r, text)
    \/ \E r \in Requests : HandlerStep(r)

SpecFair == Init /\ [][NextFair]_vars /\ \A r \in Requests : WF_vars(HandlerStep(r))

NextParse ==
    \/ \E w \in Lexemes : Compose(w)
    \/ Parse

SpecParse == Init /\ [][NextParse]_vars

TickSteps == {cache_duration, cache_duration + 1}

NextComponents ==
    \/ \E d \in TickSteps : Tick(d)
    \/ \E p \in StatusKeys, success \in BOOLEAN, count \in 0..MaxCount :
            Record(p, success, count)
    \/ \E p \in StatusKeys : GetStatus(p)
    \/ \E p \in StatusKeys, term \in SearchTerms : GetUserMessage(p, term)
    \/ \E p \in SearchTokens, outcome \in ScraperOutcomes : Search(p, outcome)

SpecComponents == Init /\ [][NextComponents]_vars

NextProducts ==
    \/ AmazonParse
    \/ EbayParse
    \/ AliExpressParse
    \/ Rank
    \/ ParseSearchResults

SpecProducts == Init /\ [][NextProducts]_vars

(* Specification SpecConcurrent: two updates are handled at the same time; *)
(* the event loop runs one handler from one await to its next and then may *)
(* switch to the other.  Sending to Telegram succeeds except when the      *)
(* results are delivered.                                                  *)

ConcurrentRequests == {"r1", "r2"}

ConcurrentTexts ==
    { <<"laptop", COMMA, SP, "amazon">>,
      <<"Bay", COMMA, SP, "laptop">> }

ConcurrentResponses ==
    {Http200(n) : n \in 0..MaxProducts} \cup {[kind |-> "timeout", products |-> <<>>]}

InitConcurrent ==
    /\ message = <<>>
    /\ search_request = NoRequest
    /\ status_cache = [k \in CacheKeys |-> <<>>]
    /\ now = 0
    /\ last_op = NoOp
    /\ requests = [r \in ConcurrentRequests |-> IdleRequest]
    /\ extraction = NoExtraction
    /\ ranking = NoRanking
    /\ parsing = NoParsing

NextConcurrent ==
    \/ \E r \in ConcurrentRequests, text \in ConcurrentTexts :
            requests[r].pc = "idle" /\ Receive(r, text)
    \/ \E r \in ConcurrentRequests : Typing(r, TRUE)
    \/ \E r \in ConcurrentRequests : Announce(r, TRUE)
    \/ \E r \in ConcurrentRequests : PreDelay(r)
    \/ \E r \in ConcurrentRequests, response \in ConcurrentResponses : Fetch(r, response)
    \/ \E r \in ConcurrentRequests, ok \in BOOLEAN : Deliver(r, ok, FALSE)
    \/ \E r \in ConcurrentRequests : EditError(r, TRUE)
    \/ PipelineTick

SpecConcurrent == InitConcurrent /\ [][NextConcurrent]_vars

----------------------------------------------------------------------------
(* Properties *)

Last(t) == t[Len(t)]
HasEntry(p) == status_cache[p] # <<>>
Entry(p) == status_cache[p][1]

\* C1: when all three fetch attempts of a search time out, the registry
\* returns an empty list to the handler and the entry stored for the platform
\* when the request ends has status `error`.
C1_ThreeTimeoutsRecordError ==
    \A r \in Requests :
        (requests[r].pc = "done" /\ requests[r].log = <<"timeout", "timeout", "timeout">>)
        => /\ requests[r].manager[1].products = <<>>
           /\ HasEntry(requests[r].sr.platform)
           /\ Entry(requests[r].sr.platform).status = "error"

\* C2: a scraper search whose every attempt ended in a timeout or a transport
\* error leaves search with an exception, not with a returned list.
C2_ExhaustedRetriesRaise ==
    \A r \in Requests :
        (/\ requests[r].scraper # <<>>
         /\ Len(requests[r].log) = 3
         /\ \A i \in 1..3 : requests[r].log[i] \in {"timeout", "error"})
        => requests[r].scraper[1].raised

\* C3: ScraperManager.search never raises; an unresolved token gives an empty
\* list without a scraper being invoked, a raising scraper gives an empty
\* list, and otherwise the scraper's list is returned unchanged.
C3_ManagerSearchNeverRaises ==
    last_op.op = "search" =>
        LET resolved == normalize_platform(last_op.platform) # NoPlatform
        IN /\ ~last_op.search.raised
           /\ ~resolved => /\ last_op.search.products = <<>>
                           /\ last_op.search.scraper = NoPlatform
           /\ (resolved /\ last_op.outcome.raised) => last_op.search.products = <<>>
           /\ (resolved /\ ~last_op.outcome.raised)
                => /\ last_op.search.products = last_op.outcome.products
                   /\ last_op.search.scraper \in {"amazon", "ebay"}

C3_Witness ==
    /\ last_op.op = "search"
    /\ last_op.platform = <<"AMZN", " ">>
    /\ last_op.outcome.raised
    /\ last_op.search.scraper = "amazon"
    /\ last_op.search.products = <<>>

\* C4: every stored entry's status is the one its own success flag and
\* product count determine (failure: error; success with no product:
\* limited; success with products: working), whatever was stored before.
C4_StatusFromArguments ==
    \A p \in StatusKeys :
        HasEntry(p) =>
            /\ ~Entry(p).success => Entry(p).status = "error"
            /\ (Entry(p).success /\ Entry(p).product_count = 0)
                    => Entry(p).status = "limited"
            /\ (Entry(p).success /\ Entry(p).product_count > 0)
                    => Entry(p).status = "working"

C4_Witness ==
    /\ last_op.op = "record"
    /\ last_op.at > 0
    /\ \E p \in StatusKeys :
        /\ p = last_op.platform
        /\ HasEntry(p)
        /\ Entry(p).last_checked = last_op.at
        /\ ~Entry(p).success
        /\ Entry(p).product_count = 0
        /\ Entry(p).status = "error"
    /\ \E p \in StatusKeys :
        /\ HasEntry(p)
        /\ Entry(p).last_checked = 0
        /\ Entry(p).status = "working"

\* C5: get_platform_status returns the status of the latest record for the
\* platform while that record is at most 15 minutes old, and absent when it
\* is older or when the platform was never recorded.
C5_GetStatusFreshness ==
    last_op.op = "get_status" =>
        LET p == last_op.platform
        IN last_op.status =
            IF ~HasEntry(p) THEN NoStatus
            ELSE IF last_op.at - Entry(p).last_checked <= 15 THEN Entry(p).status
            ELSE NoStatus

C5_Witness ==
    /\ last_op.op = "get_status"
    /\ HasEntry(last_op.platform)
    /\ ~Entry(last_op.platform).success
    /\ last_op.at - Entry(last_op.platform).last_checked = 15
    /\ last_op.status = "error"

\* C6: get_user_message gives the generic no-results text exactly when the
\* status is absent (missing or expired) or working, the unavailable advisory
\* when the fresh status is error and the anti-bot advisory when it is limited.
FreshStatus(p, t) ==
    IF ~HasEntry(p) THEN NoStatus
    ELSE IF t - Entry(p).last_checked > 15 THEN NoStatus
    ELSE Entry(p).status

C6_UserMessageByStatus ==
    last_op.op = "get_user_message" =>
        LET st == FreshStatus(last_op.platform, last_op.at)
        IN /\ last_op.msg.kind = MsgNoResults <=> st \in {NoStatus, "working"}
           /\ st = "error" => last_op.msg.kind = MsgUnavailable
           /\ st = "limited" => last_op.msg.kind = MsgAntiBot
           /\ last_op.msg.kind \in {MsgNoResults, MsgUnavailable, MsgAntiBot}

C6_Witness ==
    /\ last_op.op = "get_user_message"
    /\ HasEntry(last_op.platform)
    /\ Entry(last_op.platform).status = "limited"
    /\ last_op.at - Entry(last_op.platform).last_checked > 15
    /\ last_op.msg.kind = MsgNoResults

----------------------------------------------------------------------------
(* Properties of the request parser, stated on the text itself *)

Parsed == search_request # NoRequest

RecognizedTokens == {"amazon", "amazon.com", "amzn", "ebay", "ebay.com", "bay"}

\* the text is one recognized platform token, in any letter case
PlatformToken(t) == Len(t) = 1 /\ Lower(t[1]) \in RecognizedTokens

HasComma(t) == \E i \in 1..Len(t) : t[i] = COMMA
IsFirstComma(t, i) ==
    i \in 1..Len(t) /\ t[i] = COMMA /\ \A j \in 1..(i - 1) : t[j] # COMMA

Before(t, i) == Strip(SubSeq(t, 1, i - 1))
After(t, i) == Strip(SubSeq(t, i + 1, Len(t)))

\* lexeme i is one of the keywords kws, with whitespace on both sides,
\* text before it and text after it
Delimited(t, kws, i) ==
    /\ i \in 3..(Len(t) - 2)
    /\ Lower(t[i]) \in kws
    /\ t[i - 1] = SP
    /\ t[i + 1] = SP
    /\ Before(t, i) # <<>>
    /\ After(t, i) # <<>>

Leftmost(t, kws, i) ==
    Delimited(t, kws, i) /\ \A j \in 1..(i - 1) : ~Delimited(t, kws, j)

NonEmptyError(sr) == sr.error_message \notin {NoError, ""}

\* C7: in a text with a comma, when the part left of the first comma is a
\* platform token and the rest is non-empty, or the part right of it is a
\* platform token and the left part is non-empty item text, the request is
\* valid, its platform is that token and its item name is the trimmed text
\* on the other side.
C7_CommaEitherSide ==
    Parsed =>
        \A i \in 1..Len(message) :
            IsFirstComma(message, i) =>
                LET left == Before(message, i)
                    right == After(message, i)
                IN /\ (PlatformToken(left) /\ right # <<>>)
                        => /\ search_request.is_valid
                           /\ search_request.platform = left
                           /\ search_request.item_name = right
                   /\ (PlatformToken(right) /\ left # <<>> /\ ~PlatformToken(left))
                        => /\ search_request.is_valid
                           /\ search_request.platform = right
                           /\ search_request.item_name = left

C7_Witness ==
    /\ Parsed
    /\ \E i \in 1..Len(message) :
        /\ IsFirstComma(message, i)
        /\ Before(message, i) = <<"Bay">>
        /\ message[1] = SP
        /\ After(message, i) = <<"laptop", COMMA, "laptop">>
    /\ search_request.is_valid
    /\ search_request.platform = <<"Bay">>
    /\ search_request.item_name = <<"laptop", COMMA, "laptop">>

\* C8: when neither part around the first comma is a platform token and
\* neither keyword pattern matches with a platform token, the request is
\* invalid and carries a non-empty guidance text; blank text included.
CommaGrammarApplies(t) ==
    \E i \in 1..Len(t) :
        IsFirstComma(t, i) /\ (PlatformToken(Before(t, i)) \/ PlatformToken(After(t, i)))

KeywordGrammarApplies(t) ==
    \/ \E i \in 1..Len(t) :
            Leftmost(t, {"on", "from", "in", "at"}, i) /\ PlatformToken(After(t, i))
    \/ \E i \in 1..Len(t) :
            Leftmost(t, {"for"}, i) /\ PlatformToken(Before(t, i))

C8_NoGrammarInvalid ==
    (Parsed /\ ~CommaGrammarApplies(Strip(message))
            /\ ~KeywordGrammarApplies(Strip(message)))
        => /\ ~search_request.is_valid
           /\ NonEmptyError(search_request)

C8_Witness ==
    /\ Parsed
    /\ HasComma(message)
    /\ \E i \in 1..Len(message) : Delimited(message, {"on", "from", "in", "at"}, i)
    /\ \E i \in 1..Len(message) : PlatformToken(<<message[i]>>)
    /\ ~CommaGrammarApplies(Strip(message))
    /\ ~KeywordGrammarApplies(Strip(message))
    /\ ~search_request.is_valid
    /\ search_request.error_message = ErrMissingPlatform

\* C9: the request is valid exactly when item name and platform are both
\* present and non-empty, and it carries a non-empty error text exactly when
\* it is not valid.
Present(t) == t # None /\ Len(t) > 0

C9_ValidIffBothPresent ==
    Parsed =>
        /\ search_request.is_valid
            <=> (Present(search_request.item_name) /\ Present(search_request.platform))
        /\ NonEmptyError(search_request) <=> ~search_request.is_valid

C9_Witness ==
    /\ Parsed
    /\ search_request.item_name = <<>>
    /\ search_request.platform = <<"amazon">>
    /\ ~search_request.is_valid
    /\ search_request.error_message = ErrMissingItem

\* C10: a text without a comma of the form `<item> K <platform>` (K one of
\* on, from, in, at) gives a valid request with that platform and that item,
\* and `<platform> for <item>` gives a valid request with that platform and
\* that item, for any non-empty item text.
C10_KeywordForms ==
    (Parsed /\ ~HasComma(message)) =>
        LET t == Strip(message)
        IN /\ \A i \in 1..Len(t) :
                (Delimited(t, {"on", "from", "in", "at"}, i) /\ PlatformToken(After(t, i)))
                    => /\ search_request.is_valid
                       /\ search_request.platform = After(t, i)
                       /\ search_request.item_name = Before(t, i)
           /\ \A i \in 1..Len(t) :
                (Delimited(t, {"for"}, i) /\ PlatformToken(Before(t, i)))
                    => /\ search_request.is_valid
                       /\ search_request.platform = Before(t, i)
                       /\ search_request.item_name = After(t, i)

\* C11 as stated, blank text included: when neither grammar applies, a text
\* that is one platform token gives an invalid request with that platform, no
\* item name and the missing-item guidance, and any other text gives an
\* invalid request whose item name is the whole trimmed text, with no
\* platform and the missing-platform guidance.
FallbackResult(t) ==
    IF PlatformToken(t)
    THEN /\ ~search_request.is_valid
         /\ search_request.platform = t
         /\ search_request.item_name = None
         /\ search_request.error_message = ErrMissingItem
    ELSE /\ ~search_request.is_valid
         /\ search_request.item_name = t
         /\ search_request.platform = None
         /\ search_request.error_message = ErrMissingPlatform

NoGrammarApplies(t) == ~CommaGrammarApplies(t) /\ ~KeywordGrammarApplies(t)

C11_FallbackAnyText ==
    (Parsed /\ NoGrammarApplies(Strip(message))) => FallbackResult(Strip(message))

\* C11 amended: the same for every text that is not blank; a blank text
\* gets the "provide a search query" text and no item name.
C11_FallbackNonBlank ==
    (Parsed /\ Strip(message) # <<>> /\ NoGrammarApplies(Strip(message)))
        => FallbackResult(Strip(message))

C11_Witness ==
    /\ Parsed
    /\ message = <<SP, "Bay", SP>>
    /\ NoGrammarApplies(Strip(message))
    /\ search_request.platform = <<"Bay">>
    /\ search_request.item_name = None
    /\ search_request.error_message = ErrMissingItem

----------------------------------------------------------------------------
(* Properties of product extraction and ranking *)

Emitted == extraction.product # NoProduct
EmittedProduct == extraction.product[1]

\* C12: no scraper emits a Product with an empty product link: an element
\* for which no link is resolved is discarded by _parse_product.
C12_NoEmptyProductLink ==
    Emitted => EmittedProduct.product_url # ""

\* C13: no scraper emits a Product whose title is empty, "Unknown Item" or
\* shorter than 5 characters.
C13_NoTrivialTitle ==
    Emitted => /\ EmittedProduct.title # ""
               /\ EmittedProduct.title # "Unknown Item"
               /\ TextLen(EmittedProduct.title) >= 5

\* C14: the rating of an emitted Product lies in [0, 5]; the rating component
\* of calculate_score lies in [0, 1] for every rating; the rating eBay derives
\* from a review count is 2.5 plus 0.5 for each of the thresholds 5, 10, 20,
\* 50, 100 the count exceeds, hence non-decreasing in the count.
BucketThresholds == {5, 10, 20, 50, 100}
Bucket(count) == 25 + 5 * Cardinality({t \in BucketThresholds : count > t})

C14_RatingRanges ==
    /\ Emitted => EmittedProduct.rating \in 0..50
    /\ (Emitted /\ extraction.scraper = "ebay"
            /\ extraction.element.review_count # <<>>)
        => /\ EmittedProduct.rating = Bucket(extraction.element.review_count[1])
           /\ \A c \in 0..extraction.element.review_count[1] :
                ebay_rating([review_count |-> <<c>>]) <= EmittedProduct.rating
    /\ \A i \in 1..Len(ranking.products) :
        ranking.products[i].rating # NoneRating
            => rating_score(ranking.products[i].rating) \in 0..50

C14_Witness ==
    /\ Emitted
    /\ extraction.scraper = "ebay"
    /\ extraction.element.review_count = <<51>>
    /\ EmittedProduct.rating = 45

Ranked == ranking.method # "none"
Count(seq, x) == Cardinality({i \in 1..Len(seq) : seq[i] = x})
SubList(result, products) ==
    /\ Len(result) <= Len(products)
    /\ \A i \in 1..Len(result) :
        /\ \E j \in 1..Len(products) : products[j] = result[i]
        /\ Count(result, result[i]) <= Count(products, result[i])

\* C15 as stated, for every limit: the list rank_products returns is no
\* longer than limit and no longer than the input, and each returned product
\* is an element of the input that occurs no more often than in the input.
C15_AtMostLimitAnyLimit ==
    Ranked => /\ Len(ranking.result) <= ranking.limit
              /\ SubList(ranking.result, ranking.products)

\* C15 amended: the same with the length bounded by limit for every limit
\* that is not negative; for a negative limit the result is still a sub-list
\* of the input.
C15_AtMostLimit ==
    Ranked => /\ ranking.limit >= 0 => Len(ranking.result) <= ranking.limit
              /\ SubList(ranking.result, ranking.products)

C15_Witness ==
    /\ Ranked
    /\ ranking.method = "rating"
    /\ Len(ranking.products) = 3
    /\ ranking.products[1] = ranking.products[3]
    /\ ranking.products[2].rating = NoneRating
    /\ ranking.limit = 2
    /\ Len(ranking.result) = 2

\* C16: with method `score` the result lists input elements in order of
\* non-increasing score, elements of equal score in their input order, every
\* element left out ranks after every element returned, and for a limit that
\* is not negative the result has min(limit, len(products)) elements.
Precedes(products, a, b) ==
    \/ calculate_score(products[a]) > calculate_score(products[b])
    \/ calculate_score(products[a]) = calculate_score(products[b]) /\ a < b

C16_ScoreOrderStable ==
    (Ranked /\ ranking.method = "score") =>
        LET ps == ranking.products
            res == ranking.result
        IN /\ ranking.limit >= 0 => Len(res) = Min(ranking.limit, Len(ps))
           /\ \E idx \in [1..Len(res) -> 1..Len(ps)] :
                /\ \A i \in 1..Len(res) : res[i] = ps[idx[i]]
                /\ \A i, j \in 1..Len(res) :
                    i < j => Precedes(ps, idx[i], idx[j])
                /\ \A m \in 1..Len(ps) :
                    (\A i \in 1..Len(res) : idx[i] # m)
                        => \A i \in 1..Len(res) : Precedes(ps, idx[i], m)

C16_Witness ==
    /\ Ranked
    /\ ranking.method = "score"
    /\ ranking.limit = 2
    /\ Len(ranking.products) = 3
    /\ ranking.products[1].title = "B"
    /\ ranking.products[2].title = "F"
    /\ ranking.products[3].title = "A"
    /\ Len(ranking.result) = 2
    /\ ranking.result[1].title = "F"
    /\ ranking.result[2].title = "B"

----------------------------------------------------------------------------
(* Properties of the search handler *)

\* the canonical identifier of the marketplace a platform token names, as a
\* status key
Canonical(platform) == <<normalize_platform(platform)>>

\* C17: once a request has recorded the outcome of its search, the status
\* read under the canonical identifier of the marketplace it searched, at the
\* time of that record, is the status that was recorded, whichever
\* recognized token the request named the marketplace with.
C17_OneEntryPerMarketplace ==
    \A r \in Requests :
        requests[r].recorded # <<>> =>
            LET raw == requests[r].sr.platform
            IN get_platform_status(status_cache, Canonical(raw),
                                   Entry(raw).last_checked)
                    = Entry(raw).status

\* C18: with two requests in flight, every step in which a request records
\* an outcome replaces the entry of that request's key by the complete entry
\* of that one record call (status, time, count and success flag all from
\* it) and leaves every other key as it was, and no other step changes the
\* table; so each key always holds the whole entry of its last record call.
RecordStep(r) == Len(requests'[r].recorded) = Len(requests[r].recorded) + 1

WrittenEntry(r) ==
    LET status == Last(requests'[r].recorded)
    IN [status |-> status,
        last_checked |-> now,
        product_count |-> IF status = "working" THEN Len(requests'[r].products)
                          ELSE 0,
        success |-> status # "error"]

UpsertStep ==
    /\ \A r \in ConcurrentRequests :
        RecordStep(r) =>
            /\ status_cache'[requests[r].sr.platform] = <<WrittenEntry(r)>>
            /\ \A k \in CacheKeys \ {requests[r].sr.platform} :
                status_cache'[k] = status_cache[k]
    /\ (\A r \in ConcurrentRequests : ~RecordStep(r))
        => status_cache' = status_cache

C18_UpsertsLastWriteWins == [][UpsertStep]_vars

C18_Witness ==
    /\ DOMAIN requests = ConcurrentRequests
    /\ requests["r1"].sr.platform = <<"amazon">>
    /\ requests["r2"].sr.platform = <<"amazon">>
    /\ requests["r1"].pc = "edit_status"
    /\ requests["r1"].recorded = <<"limited">>
    /\ requests["r2"].pc = "deliver"
    /\ requests["r2"].recorded = <<"working">>
    /\ status_cache[<<"amazon">>] =
            <<[status |-> "working", last_checked |-> now,
               product_count |-> 1, success |-> TRUE]>>
    /\ status_cache[<<"Bay">>] = <<>>

\* C19: a search call opens one session; while its attempts run, the first
\* and the retries alike, that one session is open; once search has returned,
\* by a 200 response, after the last non-200 response or by the exception of
\* the last failed attempt, the session is closed; outside a search call a
\* request holds no session.
SearchReturned(q) == q.scraper # <<>>

C19_OneSessionPerSearch ==
    \A r \in Requests :
        LET q == requests[r]
        IN /\ q.opened <= 1
           /\ q.pc = "fetch" => (q.session = "open" /\ q.opened = 1)
           /\ SearchReturned(q) => (q.session = "closed" /\ q.opened = 1)
           /\ q.session = "open" => q.pc = "fetch"
           /\ (q.pc \in {"idle", "reply", "typing", "announce", "pre_delay"})
                => (q.session = "none" /\ q.opened = 0)

C19_Witness ==
    \E r \in Requests :
        /\ requests[r].log = <<"non200", "error", "timeout">>
        /\ SearchReturned(requests[r])
        /\ requests[r].session = "closed"
        /\ requests[r].opened = 1

\* the entry the handler writes for the list the registry returned
OutcomeEntry(q, t) ==
    [status |-> IF q.products = <<>> THEN "limited" ELSE "working",
     last_checked |-> t,
     product_count |-> Len(q.products),
     success |-> TRUE]

\* get_user_message as it answers at the time of the entry now stored
AdvisoryFor(q) ==
    get_user_message(status_cache, q.sr.platform, q.sr.item_name,
                     Entry(q.sr.platform).last_checked)

\* whenever the handler is about to send, or has sent, something after the
\* search, the outcome of the search has been recorded
RecordedBeforeSend(q) ==
    /\ (q.pc \in {"edit_status", "deliver", "edit_error"}
            \/ (SearchReturned(q) /\ q.reply # NoMessage))
        => (q.recorded # <<>> /\ HasEntry(q.sr.platform))
    /\ q.pc \in {"edit_status", "deliver"}
        => /\ Entry(q.sr.platform)
                = OutcomeEntry(q, Entry(q.sr.platform).last_checked)
           /\ q.recorded = <<Entry(q.sr.platform).status>>

\* C20 as stated: the outcome is recorded before anything is sent, and every
\* text sent for an empty product list is an output of get_user_message.
C20_RecordThenAdviseAlways ==
    \A r \in Requests :
        LET q == requests[r]
        IN /\ RecordedBeforeSend(q)
           /\ (SearchReturned(q) /\ q.products = <<>> /\ q.reply # NoMessage)
                => q.reply.kind \in {MsgUnavailable, MsgAntiBot, MsgNoResults}

\* C20 amended: the outcome is recorded before anything is sent; for an
\* empty product list the text handed to the first send is the output of
\* get_user_message for that platform and search term, and it is the text the
\* user gets when that send succeeds; when that send fails, the text sent is
\* an output of get_user_message, the general error text or the fallback.
C20_RecordThenAdvise ==
    \A r \in Requests :
        LET q == requests[r]
        IN /\ RecordedBeforeSend(q)
           /\ q.pc = "edit_status"
                => (q.products = <<>> /\ q.pending = AdvisoryFor(q))
           /\ (SearchReturned(q) /\ q.products = <<>> /\ q.pc = "done"
                    /\ Len(q.recorded) = 1)
                => q.reply = AdvisoryFor(q)
           /\ (SearchReturned(q) /\ q.products = <<>> /\ q.reply # NoMessage)
                => q.reply.kind \in {MsgUnavailable, MsgAntiBot, MsgNoResults,
                                     ReplyGeneralError, ReplyWentWrong}

C20_Witness ==
    \E r \in Requests :
        /\ requests[r].pc = "done"
        /\ requests[r].sr.platform = <<"Bay">>
        /\ requests[r].products = <<>>
        /\ requests[r].recorded = <<"limited">>
        /\ requests[r].reply = Msg(MsgAntiBot, TitleText(<<"Bay">>))
        /\ now > Entry(<<"Bay">>).last_checked + cache_duration

----------------------------------------------------------------------------
(* Properties of the retry loop and of termination *)

Is200(response) == response.kind = "http200"

\* C21: a search makes at most 3 fetch attempts, one after the other; an
\* attempt that ends in a timeout, a transport error or a non-200 status is
\* followed by the next attempt while one remains; the first 200 response
\* ends the loop and the search returns the products of that response, also
\* when there are none.
C21_RetryLoop ==
    \A r \in Requests :
        LET q == requests[r]
            n == Len(q.fetched)
        IN /\ n <= max_attempts
           /\ q.pc = "fetch" => q.attempt = n /\ n < max_attempts
           /\ \A i \in 1..n :
                 IF Is200(q.fetched[i])
                 THEN /\ i = n
                      /\ q.scraper = <<Returned(q.fetched[i].products)>>
                 ELSE i < max_attempts => (n > i \/ q.pc = "fetch")
           /\ (q.scraper # <<>> /\ \A i \in 1..n : ~Is200(q.fetched[i]))
                => n = max_attempts

\* a search that was answered with a page without products on its second
\* attempt and has returned
C21_Witness ==
    \E r \in Requests :
        /\ requests[r].log = <<"non200", "http200">>
        /\ requests[r].scraper = <<Returned(<<>>)>>

Running(q) == q.pc \notin {"idle", "done"}

\* C22 as stated: a request whose search is fetching eventually completes,
\* and it completes with a reply to the user.
C22_CompletesWithReply ==
    \A r \in Requests :
        (requests[r].pc = "fetch")
            ~> (requests[r].pc = "done" /\ requests[r].reply # NoMessage)

\* a request ends without a reply only out of the outermost except branch
EndsUnanswered(r) ==
    (/\ requests[r].pc # "done"
     /\ requests'[r].pc = "done"
     /\ requests'[r].reply = NoMessage)
    => requests[r].pc = "outer_except"

\* C22: every search call comes to an end: whatever the attempts' outcomes,
\* the search returns a list after at most 3 attempts, and the request then
\* comes to its end; it ends with a reply unless the sends to Telegram
\* themselves failed up to the last one in the outermost except branch.
C22_Terminates ==
    /\ \A r \in Requests :
            (requests[r].pc = "fetch") ~> (requests[r].scraper # <<>>)
    /\ \A r \in Requests : Running(requests[r]) ~> (requests[r].pc = "done")
    /\ [](\A r \in Requests :
            requests[r].scraper # <<>>
            => /\ ~requests[r].scraper[1].raised
               /\ ~requests[r].manager[1].raised
               /\ Len(requests[r].fetched) \in 1..max_attempts)
    /\ [][\A r \in Requests : EndsUnanswered(r)]_vars

\* a request whose three attempts all failed has ended with a reply
C22_Witness ==
    \E r \in Requests :
        /\ requests[r].log = <<"timeout", "error", "non200">>
        /\ requests[r].pc = "done"
        /\ requests[r].reply # NoMessage

----------------------------------------------------------------------------
(* Properties of title extraction, page parsing and scoring *)

Present1(opt) == opt # <<>>

\* what each title strategy of a scraper produces for the element, in the
\* order the strategies are tried: <<>> when the strategy finds no node or no
\* text, else <<text>>
EbayStrategyValues(e) ==
    [i \in 1..5 |->
        IF e.methods[i] = <<>> \/ e.methods[i][1] = <<>> THEN <<>>
        ELSE LET sources == e.methods[i][1]
             IN IF FirstLong(sources) # 0 THEN <<sources[FirstLong(sources)]>>
                ELSE <<sources[Len(sources)]>>]
    \o (IF FirstLinkTitle(e.links) # 0
        THEN <<<<e.links[FirstLinkTitle(e.links)]>>>> ELSE <<>>)

AmazonStrategyValues(e) ==
    << e.title_recipe,
       IF e.h2 # <<>> THEN <<e.h2[1].text>> ELSE <<>>,
       IF FirstTitleLink(e.links) # 0
       THEN <<e.links[FirstTitleLink(e.links)].text>> ELSE <<>> >>
    \o e.fallback
    \o << IF FirstDpLink(e.links) # 0
          THEN <<e.links[FirstDpLink(e.links)].text>> ELSE <<>> >>

AliExpressStrategyValues(e) == [i \in 1..Len(e.titles) |-> <<e.titles[i]>>]

StrategyValues ==
    CASE extraction.scraper = "ebay" -> EbayStrategyValues(extraction.element)
      [] extraction.scraper = "amazon" -> AmazonStrategyValues(extraction.element)
      [] extraction.scraper = "aliexpress" ->
            AliExpressStrategyValues(extraction.element)
      [] OTHER -> <<>>

NonTrivial(opt) ==
    opt # <<>> /\ TextLen(opt[1]) > 5 /\ opt[1] # "Unknown Item"

FirstNonTrivial(values) ==
    FirstTrue([i \in 1..Len(values) |-> NonTrivial(values[i])])

\* the clean-up a scraper applies to the title it extracted
Cleaned(title) ==
    CASE extraction.scraper = "ebay" -> ebay_clean_title(title)
      [] extraction.scraper = "aliexpress" -> Truncate100(title)
      [] OTHER -> title

\* an element that is discarded for another reason than its title
DiscardedOtherwise(title) ==
    \/ extraction.scraper = "ebay" /\ IsAd(title)
    \/ extraction.scraper = "aliexpress"
            /\ aliexpress_product_url(extraction.element) = ""

\* C23: the title of an extracted product is the value of the first title
\* strategy, in the order they are tried, that produces a non-trivial value;
\* a strategy that finds a node with only empty or short text does not stop
\* the later ones, so an element with some non-trivial strategy value is
\* never discarded for its title.
C23_FirstNonTrivialWins ==
    extraction.scraper # "none"
    => LET values == StrategyValues
           k == FirstNonTrivial(values)
       IN (k # 0 /\ ~DiscardedOtherwise(Cleaned(values[k][1])))
          => /\ extraction.product # NoProduct
             /\ extraction.product[1].title = Cleaned(values[k][1])

Succeeded(candidate) == candidate.outcome = "product"

\* the Products of the candidates among the first n whose extraction succeeds
ProductsOfFirst(elements, n) ==
    LET considered == SubSeq(elements, 1, Min(n, Len(elements)))
        kept == SelectSeq(considered, Succeeded)
    IN [i \in 1..Len(kept) |-> kept[i].product[1]]

PageParsed == parsing.called /\ ~parsing.soup_raises

\* C24 as stated: for every page and every max_results the list returned is,
\* in page order, the Products of the candidates among the first max_results
\* whose extraction succeeded, and is no longer than max_results.
C24_FirstMaxResultsAnyLimit ==
    PageParsed
    => /\ parsing.products
            = ProductsOfFirst(parsing.product_elements, parsing.max_results)
       /\ Len(parsing.products) <= parsing.max_results

\* C24: for max_results >= 0 the list returned is, in page order, the
\* Products of the candidates among the first max_results whose extraction
\* succeeded; a candidate whose extraction raises or returns None is left
\* out and nothing else; the list is no longer than max_results.
C24_FirstMaxResults ==
    (PageParsed /\ parsing.max_results >= 0)
    => /\ parsing.products
            = ProductsOfFirst(parsing.product_elements, parsing.max_results)
       /\ Len(parsing.products) <= parsing.max_results

\* a page whose first candidate raises and whose next two succeed, parsed
\* with max_results = 2
C24_Witness ==
    /\ PageParsed
    /\ parsing.max_results = 2
    /\ Len(parsing.product_elements) = 3
    /\ parsing.product_elements[1].outcome = "raises"
    /\ Succeeded(parsing.product_elements[2])
    /\ Succeeded(parsing.product_elements[3])
    /\ parsing.products = <<parsing.product_elements[2].product[1]>>

\* the price texts that hold a number, which float() parses
NumericPrice(price_str) == price_str \in {"$0", "$100", "$1,500"}

\* 1 - v/1000 clamped to [0, 1], in thousandths
ClampedPrice(v) == Max(0, Min(1000, 1000 - v))

\* C25: for every ranked product whose price text parses to a number v,
\* v = 0 included, the price component is 1 - v/1000 clamped to [0, 1]; a
\* product whose price text holds no number gets the neutral 0.5; the total
\* score lies in [0, 1].
C25_PriceComponent ==
    Ranked =>
        \A i \in 1..Len(ranking.products) :
            LET p == ranking.products[i]
            IN /\ NumericPrice(p.price)
                    => price_score(p.price)
                        = ClampedPrice(extract_price_value(p.price))
               /\ ~NumericPrice(p.price) => price_score(p.price) = 500
               /\ calculate_score(p) \in 0..30000

----------------------------------------------------------------------------
(* Properties of the handler's paths *)

EmptySearch(q) == q.scraper # <<>> /\ q.products = <<>>

AntiBotAdvisory(q) == Msg(MsgAntiBot, TitleText(q.sr.platform))

TokenSpellings == platforms \cup {"Bay", "AMZN", "Amazon"}

\* C27: every token the parser takes for a platform, in any letter case, is
\* resolved by normalize_platform to a platform with a registered scraper;
\* hence the platform of every valid SearchRequest is supported and the
\* handler's "not supported" branch is never taken.
C27_TokenSetsAgree ==
    /\ \A w \in TokenSpellings :
            is_platform(<<w>>) => normalize_platform(<<w>>) \in scrapers
    /\ (Parsed /\ search_request.platform # None)
            => /\ is_platform(search_request.platform)
               /\ normalize_platform(search_request.platform) \in scrapers
    /\ ~(Parsed /\ search_request.is_valid
            /\ ~is_platform_supported(search_request.platform))

\* a valid request whose platform was given by the alias `Bay`
C27_Witness ==
    /\ Parsed
    /\ search_request.is_valid
    /\ search_request.platform = <<"Bay">>
    /\ normalize_platform(search_request.platform) = "ebay"

\* C28: for every text that is not blank the request the grammars produce
\* has an item name or a platform that is not empty, so the "Could not
\* understand" text is never returned: an invalid result carries the
\* "missing platform" or the "missing item" text.
C28_NeverNotUnderstood ==
    (Parsed /\ Strip(message) # <<>>)
    => /\ Truthy(search_request.item_name) \/ Truthy(search_request.platform)
       /\ search_request.error_message # ErrNotUnderstood
       /\ ~search_request.is_valid
            => search_request.error_message \in {ErrMissingPlatform, ErrMissingItem}

\* the text "," alone: both sides of the comma are empty, and the fallback
\* takes the whole text for the item name
C28_Witness ==
    /\ Parsed
    /\ message = <<COMMA>>
    /\ search_request.item_name = <<COMMA>>
    /\ search_request.error_message = ErrMissingPlatform

\* a request that the handler turns away before the search
Rejected(q) ==
    /\ q.pc # "idle"
    /\ \/ q.text = <<>>
       \/ ~q.sr.is_valid
       \/ ~is_platform_supported(q.sr.platform)

NoScrape(q) ==
    /\ q.opened = 0
    /\ q.session = "none"
    /\ q.fetched = <<>>
    /\ q.scraper = <<>>
    /\ q.manager = <<>>
    /\ q.recorded = <<>>

GuidanceTexts ==
    {ReplySendQuery, ErrEmpty, ErrMissingPlatform, ErrMissingItem,
     ErrNotUnderstood, ReplyUnsupported, ReplyWentWrong}

\* a step of a rejected request leaves the status table as it is
RejectedKeepsTable(r) ==
    (Rejected(requests'[r]) /\ requests'[r] # requests[r])
    => status_cache' = status_cache

\* C29: a request whose text gives no valid SearchRequest, or an unsupported
\* platform, sends guidance text only: no search is started, nothing is
\* fetched and the status table stays as it is; a request that reaches the
\* search calls one scraper, the one of its platform, once.
C29_RejectedTouchesNothing ==
    /\ [](\A r \in Requests :
            Rejected(requests[r])
            => /\ NoScrape(requests[r])
               /\ requests[r].pending.kind \in GuidanceTexts
               /\ requests[r].reply.kind \in GuidanceTexts \cup {NoMessage.kind})
    /\ [](\A r \in Requests :
            (requests[r].pc = "fetch" \/ requests[r].scraper # <<>>)
            => /\ ~Rejected(requests[r])
               /\ requests[r].opened = 1
               /\ requests[r].scraper # <<>>
                    => /\ Len(requests[r].manager) = 1
                       /\ requests[r].manager[1].scraper
                            = normalize_platform(requests[r].sr.platform)
                       /\ requests[r].manager[1].scraper \in scrapers)
    /\ [][\A r \in Requests : RejectedKeepsTable(r)]_vars

\* a request naming only a platform was answered with the missing-item text
\* while the table holds the entry of an earlier search
C29_Witness ==
    \E r \in Requests :
        /\ requests[r].pc = "done"
        /\ requests[r].text = <<"Bay">>
        /\ requests[r].reply = Msg(ErrMissingItem, <<>>)
        /\ NoScrape(requests[r])
        /\ status_cache[<<"amazon">>] # <<>>

SuccessStatuses == {"working", "limited"}

\* C30: within one request `error` is written only after `working` or
\* `limited` was written for the same key in that request: the failure
\* branch is entered only after the search has returned to the handler and
\* its outcome was recorded, and the entry then reads `error`.
C30_ErrorOnlyAfterSuccess ==
    \A r \in Requests :
        LET q == requests[r]
        IN /\ \A i \in 1..Len(q.recorded) :
                 IF i = 1 THEN q.recorded[i] \in SuccessStatuses
                 ELSE i = 2 /\ q.recorded[i] = "error"
           /\ q.recorded # <<>>
                => q.manager # <<>> /\ ~q.manager[1].raised
           /\ q.pc = "edit_error"
                => /\ Len(q.recorded) = 2
                   /\ HasEntry(q.sr.platform)
                   /\ Entry(q.sr.platform).status = "error"

\* results were found and recorded, their delivery failed, and the entry of
\* the platform now reads `error`
C30_Witness ==
    \E r \in Requests :
        /\ requests[r].pc = "edit_error"
        /\ requests[r].products # <<>>
        /\ requests[r].recorded = <<"working", "error">>
        /\ Entry(requests[r].sr.platform).status = "error"

====
